---- MODULE Spec2Model ----
(***************************************************************************)
(* Model of the exploration topics queue of code-explainer                 *)
(* (src/src/code_explainer/topics.py): the Topic record, the persisted     *)
(* topics.json document, and the Store operations load_queue, save_queue,  *)
(* add_topics, pop_next, skip_topic and pending_count; of the parser of    *)
(* follow-up topics, parse_topics_from_response; and of the symbol         *)
(* extractor, extract_symbol (src/src/code_explainer/git_utils.py).        *)
(***************************************************************************)
EXTENDS Integers, Sequences, FiniteSets, TLC

(***************************************************************************)
(* Bounds of the model.                                                    *)
(***************************************************************************)
MaxQueue == 3
MaxInput == 2
MaxPops == MaxQueue + 1

Times == {"t0", "t1"}

(***************************************************************************)
(* Topic (topics.py:17-32): six string fields.                             *)
(***************************************************************************)
FieldNames == {"title", "kind", "target", "source", "status", "added"}
RequiredFields == {"title", "kind", "target"}

Topic(title, kind, target, source, status, added) ==
    [title |-> title, kind |-> kind, target |-> target,
     source |-> source, status |-> status, added |-> added]

\* The Topics a caller hands to add_topics come in two variants that differ
\* in title, kind, source and creation time; status is the default.
MkTopic(tg, v) ==
    IF v = 1 THEN Topic("T1", "file", tg, "", "pending", "t0")
             ELSE Topic("T2", "function", tg, "file:x.py", "pending", "t1")

\* a.py comes in both variants, so that two Topics can share a target and
\* differ in everything else.
InputTopics ==
    {MkTopic("a.py", 1), MkTopic("a.py", 2), MkTopic("b.py", 1), MkTopic("c.py", 2)}

SeqsUpTo(S, n) == UNION {[1..k -> S] : k \in 0..n}

(***************************************************************************)
(* The persisted document topics.json, as json.load sees it.               *)
(*   shape "absent"                      no file                           *)
(*   shape "empty" | "partial" | "garbage"   bytes that are not JSON       *)
(*   shape "array"                        a JSON array; items = elements   *)
(*   shape "object"                       a JSON object; items = its keys  *)
(*   shape "string"                       a JSON string; items = its chars *)
(*   shape "number" | "null"              a JSON scalar                    *)
(* An item is what iterating the decoded value yields: a dict (form        *)
(* "dict", with the set of keys it has and their values), a str or a num.  *)
(***************************************************************************)
NoValues == Topic("", "", "", "", "", "")

DictItem(keys, val) == [form |-> "dict", keys |-> keys, val |-> val]
StrItem == [form |-> "str", keys |-> {}, val |-> NoValues]
NumItem == [form |-> "num", keys |-> {}, val |-> NoValues]

Doc(shape, items) == [shape |-> shape, items |-> items]
Absent == Doc("absent", <<>>)

\* Variant of asdict that leaves the creation time out of the record.
asdict_no_added(t) == DictItem(FieldNames \ {"added"}, t)

\* asdict(t) (topics.py:57): every field of the dataclass becomes a key.
asdict(t) == DictItem(FieldNames, t)

\* json.dump([asdict(t) for t in queue], f, indent=2) (topics.py:57)
Encode(queue) == Doc("array", [i \in 1..Len(queue) |-> asdict(queue[i])])

(***************************************************************************)
(* load_queue (topics.py:42-49).                                           *)
(***************************************************************************)
\* Topic(**item) (topics.py:49) raises TypeError unless item is a mapping
\* whose keys include the fields without default and name only fields.
Decodable(item) ==
    /\ item.form = "dict"
    /\ RequiredFields \subseteq item.keys
    /\ item.keys \subseteq FieldNames

\* Topic(**item): missing source, status, added take the dataclass defaults
\* (topics.py:28-32); added defaults to the current time.
Decode(item, now) ==
    Topic(item.val.title, item.val.kind, item.val.target,
          IF "source" \in item.keys THEN item.val.source ELSE "",
          IF "status" \in item.keys THEN item.val.status ELSE "pending",
          IF "added" \in item.keys THEN item.val.added ELSE now)

load_queue(d, f, now) ==
    IF ~d \/ f.shape = "absent"
    THEN [err |-> "none", queue |-> <<>>]
    ELSE IF f.shape \in {"empty", "partial", "garbage"}
    THEN [err |-> "JSONDecodeError", queue |-> <<>>]
    ELSE IF f.shape \in {"number", "null"}
    THEN [err |-> "TypeError", queue |-> <<>>]
    ELSE IF \E i \in 1..Len(f.items) : ~Decodable(f.items[i])
    THEN [err |-> "TypeError", queue |-> <<>>]
    ELSE [err |-> "none",
          queue |-> [i \in 1..Len(f.items) |-> Decode(f.items[i], now)]]

(***************************************************************************)
(* save_queue (topics.py:52-57), run to completion: makedirs, open for     *)
(* writing, dump, close.                                                   *)
(***************************************************************************)
save_queue(queue) == [dir |-> TRUE, file |-> Encode(queue)]

(***************************************************************************)
(* Result of a Store operation: the persisted state it leaves and what it  *)
(* returns (n: integer result, flag: boolean result, out: the returned     *)
(* Topic as a sequence of length 0 or 1, or the loaded sequence).          *)
(***************************************************************************)
Result(d, f, err, n, flag, out, wrote) ==
    [dir |-> d, file |-> f, err |-> err, n |-> n, flag |-> flag,
     out |-> out, wrote |-> wrote]

Raise(d, f, err) == Result(d, f, err, 0, FALSE, <<>>, FALSE)

(***************************************************************************)
(* add_topics (topics.py:60-76).                                           *)
(***************************************************************************)
\* Variant of the loop body that does not record the appended target.
add_step_forgets(acc, topic) ==
    IF topic.target \notin acc.existing
    THEN [queue |-> Append(acc.queue, topic),
          existing |-> acc.existing,
          added |-> acc.added + 1]
    ELSE acc

\* Variant of the loop body that inserts at the front of the queue.
add_step_front(acc, topic) ==
    IF topic.target \notin acc.existing
    THEN [queue |-> <<topic>> \o acc.queue,
          existing |-> acc.existing \cup {topic.target},
          added |-> acc.added + 1]
    ELSE acc

\* Loop body, topics.py:70-73.
add_step(acc, topic) ==
    IF topic.target \notin acc.existing
    THEN [queue |-> Append(acc.queue, topic),
          existing |-> acc.existing \cup {topic.target},
          added |-> acc.added + 1]
    ELSE acc

RECURSIVE add_loop(_, _, _)
add_loop(topics, i, acc) ==
    IF i > Len(topics) THEN acc
    ELSE add_loop(topics, i + 1, add_step(acc, topics[i]))

\* Variant that saves whether or not anything was appended.
add_saves_always(added) == TRUE

\* topics.py:74: "if added: save_queue(...)"
add_saves(added) == added # 0

\* Variant of existing_targets that only knows the pending Topics.
existing_targets_pending(queue) ==
    {queue[i].target : i \in {j \in 1..Len(queue) : queue[j].status = "pending"}}

\* topics.py:67: existing_targets = {t.target for t in queue}
existing_targets(queue) == {queue[i].target : i \in 1..Len(queue)}

add_topics(d, f, topics, now) ==
    LET l == load_queue(d, f, now) IN
    IF l.err # "none" THEN Raise(d, f, l.err)
    ELSE LET acc == add_loop(topics, 1,
                       [queue |-> l.queue,
                        existing |-> existing_targets(l.queue),
                        added |-> 0])
         IN IF add_saves(acc.added)
            THEN LET s == save_queue(acc.queue)
                 IN Result(s.dir, s.file, "none", acc.added, FALSE, <<>>, TRUE)
            ELSE Result(d, f, "none", acc.added, FALSE, <<>>, FALSE)

(***************************************************************************)
(* pop_next (topics.py:79-91).  Positions are 1-based.                     *)
(***************************************************************************)
\* Variant of the scan that takes the last pending Topic.
pop_scan_last(queue, i) ==
    LET P == {j \in i..Len(queue) : queue[j].status = "pending"} IN
    IF P = {} THEN 0 ELSE CHOOSE j \in P : \A k \in P : k <= j

\* The for loop of topics.py:86-87: position of the first pending Topic at
\* or after i, 0 when the loop runs off the end.
RECURSIVE pop_scan(_, _)
pop_scan(queue, i) ==
    IF i > Len(queue) THEN 0
    ELSE IF queue[i].status = "pending" THEN i
    ELSE pop_scan(queue, i + 1)

\* Variant that leaves the status as it is.
mark_done_nothing(queue, i) == queue

\* Variant that keeps marking after the first pending Topic.
mark_done_all(queue, i) ==
    [j \in 1..Len(queue) |->
        IF j >= i /\ queue[j].status = "pending"
        THEN [queue[j] EXCEPT !.status = "done"] ELSE queue[j]]

\* topics.py:88
mark_done(queue, i) == [queue EXCEPT ![i].status = "done"]

\* topics.py:89: the whole sequence is saved after the status change.
pop_persist(queue) == save_queue(queue)

pop_next(d, f, now) ==
    LET l == load_queue(d, f, now) IN
    IF l.err # "none" THEN Raise(d, f, l.err)
    ELSE LET i == pop_scan(l.queue, 1) IN
         IF i = 0 THEN Result(d, f, "none", 0, FALSE, <<>>, FALSE)
         ELSE LET q == mark_done(l.queue, i)
                  s == pop_persist(q)
              IN Result(s.dir, s.file, "none", 0, FALSE, <<q[i]>>, TRUE)

(***************************************************************************)
(* skip_topic (topics.py:94-102).  index is the caller's 0-based index;    *)
(* positions in the queue are 1-based.                                     *)
(***************************************************************************)
\* topics.py:97
pending_positions(queue) ==
    SelectSeq([i \in 1..Len(queue) |-> i],
              LAMBDA i : queue[i].status = "pending")

\* Variant of the bounds check without the test for a negative index.
skip_in_bounds_upper(index, pending) == ~(index >= Len(pending))

\* topics.py:98, negated: the index passes the bounds check
skip_in_bounds(index, pending) == ~(index < 0 \/ index >= Len(pending))

\* Python list indexing seq[index]: negative indices count from the end;
\* 0 stands for IndexError.
py_index(seq, index) ==
    IF 0 <= index /\ index < Len(seq) THEN seq[index + 1]
    ELSE IF index < 0 /\ -index <= Len(seq) THEN seq[Len(seq) + index + 1]
    ELSE 0

\* Variant that takes index as a position of the raw queue.
skip_position_raw(pending, index) == index + 1

\* topics.py:100: pending[index], the position whose status is set
skip_position(pending, index) == py_index(pending, index)

skip_topic(d, f, index, now) ==
    LET l == load_queue(d, f, now) IN
    IF l.err # "none" THEN Raise(d, f, l.err)
    ELSE LET pending == pending_positions(l.queue) IN
         IF ~skip_in_bounds(index, pending)
         THEN Result(d, f, "none", 0, FALSE, <<>>, FALSE)
         ELSE LET p == skip_position(pending, index) IN
              IF p = 0 THEN Raise(d, f, "IndexError")
              ELSE LET s == save_queue([l.queue EXCEPT ![p].status = "skipped"])
                   IN Result(s.dir, s.file, "none", 0, TRUE, <<>>, TRUE)

\* Variant of pending_count that counts every stored Topic.
pending_count_all(d, f, now) ==
    LET l == load_queue(d, f, now) IN
    IF l.err # "none" THEN Raise(d, f, l.err)
    ELSE Result(d, f, "none", Len(l.queue), FALSE, <<>>, FALSE)

(***************************************************************************)
(* pending_count (topics.py:105-107).                                      *)
(***************************************************************************)
pending_count(d, f, now) ==
    LET l == load_queue(d, f, now) IN
    IF l.err # "none" THEN Raise(d, f, l.err)
    ELSE Result(d, f, "none",
                Cardinality({i \in 1..Len(l.queue) : l.queue[i].status = "pending"}),
                FALSE, <<>>, FALSE)

(***************************************************************************)
(* State.                                                                  *)
(*   dir   the output directory exists                                     *)
(*   file  the document at <output_dir>/topics.json                        *)
(*   pre   dir and file as they were when the last call started            *)
(*   last  the last call of a Store operation: its arguments and result    *)
(*   run   the current run of consecutive pop_next calls: the pending      *)
(*         Topics when the run started and what each call returned         *)
(*   pc    where the caller stands inside save_queue ("idle" outside)      *)
(*   buf   the document save_queue is writing and the pending result       *)
(*   conc  for each of two concurrent callers, the operation it is in      *)
(*         between its load_queue and its save_queue                       *)
(*   inp   the arguments of a call of a pure function (the parser, the     *)
(*         symbol extractor)                                               *)
(*   outp  the result of that call                                         *)
(***************************************************************************)
VARIABLES dir, file, pre, last, run, pc, buf, conc, inp, outp

vars == <<dir, file, pre, last, run, pc, buf, conc, inp, outp>>

CallRec(op, input, index, r) ==
    [op |-> op, input |-> input, index |-> index, err |-> r.err, n |-> r.n,
     flag |-> r.flag, out |-> r.out, wrote |-> r.wrote]

NoCall == [op |-> "init", input |-> <<>>, index |-> 0, err |-> "none", n |-> 0,
           flag |-> FALSE, out |-> <<>>, wrote |-> FALSE]

NoBuf == [file |-> Absent, ret |-> NoCall]

\* The two callers of the concurrent sessions; a caller outside a call.
Callers == {1, 2}
IdleCaller == [pc |-> "idle", snap |-> <<>>, mem |-> <<>>, ret |-> NoCall]
NoConc == [p \in Callers |-> IdleCaller]

\* No pure function has been called.
NoInput == [fn |-> "none"]
NoOutput == [done |-> FALSE]

\* The Topics a load of the persisted state yields (empty when it raises).
Stored(d, f) == load_queue(d, f, "t0").queue

PendingOf(queue) == SelectSeq(queue, LAMBDA t : t.status = "pending")

Init ==
    /\ dir \in BOOLEAN
    /\ file = Absent
    /\ pre = [dir |-> dir, file |-> file]
    /\ last = NoCall
    /\ run = [pending |-> <<>>, rets |-> <<>>]
    /\ pc = "idle"
    /\ buf = NoBuf
    /\ conc = NoConc
    /\ inp = NoInput
    /\ outp = NoOutput

\* datetime.now() (topics.py:32) is read only when a stored item has no
\* "added" key; otherwise the time of the call does not matter.
NowFor(f) ==
    IF \E i \in 1..Len(f.items) : "added" \notin f.items[i].keys
    THEN Times ELSE {"t0"}

\* A call that runs to completion: the operation's effect on the persisted
\* state and the record of the call.
Complete(op, input, index, r) ==
    /\ dir' = r.dir
    /\ file' = r.file
    /\ pre' = [dir |-> dir, file |-> file]
    /\ last' = CallRec(op, input, index, r)
    /\ UNCHANGED <<pc, buf, conc, inp, outp>>

EndRun(r) == run' = [pending |-> PendingOf(Stored(r.dir, r.file)), rets |-> <<>>]

Load ==
    /\ pc = "idle"
    /\ \E now \in NowFor(file) :
          LET l == load_queue(dir, file, now) IN
          LET r == Result(dir, file, l.err, 0, FALSE, l.queue, FALSE) IN
          Complete("load", <<>>, 0, r) /\ EndRun(r)

Add ==
    /\ pc = "idle"
    /\ \E topics \in SeqsUpTo(InputTopics, MaxInput), now \in NowFor(file) :
          LET r == add_topics(dir, file, topics, now) IN
          /\ Len(Stored(r.dir, r.file)) <= MaxQueue
          /\ Complete("add", topics, 0, r)
          /\ EndRun(r)

PopNext ==
    /\ pc = "idle"
    /\ Len(run.rets) < MaxPops
    /\ \E now \in NowFor(file) :
          LET r == pop_next(dir, file, now) IN
          /\ Complete("pop", <<>>, 0, r)
          /\ run' = IF r.err = "none"
                    THEN [run EXCEPT !.rets = Append(@, r.out)]
                    ELSE run

Skip ==
    /\ pc = "idle"
    /\ \E index \in -1..MaxQueue, now \in NowFor(file) :
          LET r == skip_topic(dir, file, index, now) IN
          Complete("skip", <<>>, index, r) /\ EndRun(r)

PendingCount ==
    /\ pc = "idle"
    /\ \E now \in NowFor(file) :
          LET r == pending_count(dir, file, now) IN
          Complete("count", <<>>, 0, r) /\ EndRun(r)

Next == Load \/ Add \/ PopNext \/ Skip \/ PendingCount

Spec == Init /\ [][Next]_vars

(***************************************************************************)
(* A session opened on a topics.json that the program did not write        *)
(* (edited by hand, damaged, or left by another tool).  The operations are *)
(* the same; add takes at most one Topic to keep the queue short.          *)
(***************************************************************************)
ForeignTopics == {MkTopic("a.py", 1), MkTopic("b.py", 1)}

ForeignDocs ==
    LET t == MkTopic("c.py", 2) IN
    { Doc("empty", <<>>),                                \* zero bytes
      Doc("garbage", <<>>),                              \* not JSON
      Doc("partial", <<asdict(t)>>),                     \* [ {...}   cut off
      Doc("number", <<>>),                               \* 5
      Doc("null", <<>>),                                 \* null
      Doc("object", <<>>),                               \* {}
      Doc("object", <<StrItem>>),                        \* {"k": 1}
      Doc("string", <<>>),                               \* ""
      Doc("string", <<StrItem>>),                        \* "x"
      Doc("array", <<NumItem>>),                         \* [5]
      Doc("array", <<asdict(t), NumItem>>),              \* [{...}, 5]
      Doc("array", <<DictItem({"title", "kind"}, t)>>),  \* target missing
      Doc("array", <<DictItem(FieldNames \cup {"x"}, t)>>), \* unknown key
      Doc("array", <<DictItem(RequiredFields, t)>>),     \* defaults apply
      Doc("array", <<asdict(t)>>) }                      \* well formed

InitForeign ==
    /\ dir = TRUE
    /\ file \in ForeignDocs
    /\ pre = [dir |-> dir, file |-> file]
    /\ last = NoCall
    /\ run = [pending |-> <<>>, rets |-> <<>>]
    /\ pc = "idle"
    /\ buf = NoBuf
    /\ conc = NoConc
    /\ inp = NoInput
    /\ outp = NoOutput

AddOne ==
    /\ pc = "idle"
    /\ \E topics \in SeqsUpTo(ForeignTopics, 1), now \in NowFor(file) :
          LET r == add_topics(dir, file, topics, now) IN
          /\ Len(Stored(r.dir, r.file)) <= MaxQueue
          /\ Complete("add", topics, 0, r)
          /\ EndRun(r)

NextForeign == Load \/ AddOne \/ PopNext \/ Skip \/ PendingCount

SpecForeign == InitForeign /\ [][NextForeign]_vars

(***************************************************************************)
(* save_queue step by step (topics.py:54-57), for a caller that can be     *)
(* interrupted (Ctrl-C, kill, an OSError from the write) between steps:    *)
(*   makedirs   os.makedirs(output_dir, exist_ok=True)                     *)
(*   open       open(path, "w") truncates topics.json to zero bytes        *)
(*   dump       json.dump writes the array chunk by chunk                  *)
(*   close      the closing bracket is written and the file closed         *)
(*   return     the file holds the new array; the operation has yet to     *)
(*              return to its caller                                       *)
(* A call that saves nothing completes in one step.                        *)
(***************************************************************************)
Begin(op, input, index, r) ==
    IF r.wrote
    THEN /\ pc' = "makedirs"
         /\ buf' = [file |-> r.file, ret |-> CallRec(op, input, index, r)]
         /\ pre' = [dir |-> dir, file |-> file]
         /\ UNCHANGED <<dir, file, last, run, conc, inp, outp>>
    ELSE /\ Complete(op, input, index, r)
         /\ UNCHANGED run

BeginAdd ==
    /\ pc = "idle"
    /\ \E topics \in SeqsUpTo(ForeignTopics, 1), now \in NowFor(file) :
          LET r == add_topics(dir, file, topics, now) IN
          /\ Len(Stored(r.dir, r.file)) <= MaxQueue
          /\ Begin("add", topics, 0, r)

BeginPopNext ==
    /\ pc = "idle"
    /\ \E now \in NowFor(file) : Begin("pop", <<>>, 0, pop_next(dir, file, now))

BeginSkip ==
    /\ pc = "idle"
    /\ \E index \in -1..MaxQueue, now \in NowFor(file) :
          Begin("skip", <<>>, index, skip_topic(dir, file, index, now))

SaveMakedirs ==
    /\ pc = "makedirs"
    /\ dir' = TRUE
    /\ pc' = "open"
    /\ UNCHANGED <<file, pre, last, run, buf, conc, inp, outp>>

SaveOpen ==
    /\ pc = "open"
    /\ file' = Doc("empty", <<>>)
    /\ pc' = "dump"
    /\ UNCHANGED <<dir, pre, last, run, buf, conc, inp, outp>>

SaveDump ==
    /\ pc = "dump"
    /\ Len(file.items) < Len(buf.file.items)
    /\ file' = Doc("partial", Append(file.items, buf.file.items[Len(file.items) + 1]))
    /\ UNCHANGED <<dir, pre, last, run, pc, buf, conc, inp, outp>>

SaveClose ==
    /\ pc = "dump"
    /\ Len(file.items) = Len(buf.file.items)
    /\ file' = buf.file
    /\ pc' = "return"
    /\ UNCHANGED <<dir, pre, last, run, buf, conc, inp, outp>>

\* save_queue has written and closed the file; the operation returns
\* (topics.py:76, 90, 102)
SaveReturn ==
    /\ pc = "return"
    /\ last' = buf.ret
    /\ pc' = "idle"
    /\ UNCHANGED <<dir, file, pre, run, buf, conc, inp, outp>>

Interrupt ==
    /\ pc # "idle"
    /\ last' = [buf.ret EXCEPT !.err = "Interrupted"]
    /\ pc' = "idle"
    /\ UNCHANGED <<dir, file, pre, run, buf, conc, inp, outp>>

NextSave ==
    \/ BeginAdd \/ BeginPopNext \/ BeginSkip
    \/ SaveMakedirs \/ SaveOpen \/ SaveDump \/ SaveClose \/ SaveReturn
    \/ Interrupt

SpecSave == Init /\ [][NextSave]_vars

(***************************************************************************)
(* The persistence layer on its own: save_queue called with any sequence   *)
(* of Topics (topics.py:52-57, as the tests do), save_queue(load_queue())  *)
(* and the two reading operations.                                         *)
(***************************************************************************)
\* The Topics handed to save_queue carry every status.
SavedTopics ==
    { MkTopic("a.py", 1),
      [MkTopic("a.py", 2) EXCEPT !.status = "done"],
      [MkTopic("b.py", 1) EXCEPT !.status = "skipped"],
      MkTopic("c.py", 2) }

SaveAny ==
    /\ pc = "idle"
    /\ \E queue \in SeqsUpTo(SavedTopics, MaxInput) :
          LET s == save_queue(queue)
              r == Result(s.dir, s.file, "none", 0, FALSE, <<>>, TRUE)
          IN Complete("save", queue, 0, r) /\ EndRun(r)

\* save_queue(output_dir, load_queue(output_dir))
Resave ==
    /\ pc = "idle"
    /\ \E now \in NowFor(file) :
          LET l == load_queue(dir, file, now)
              s == save_queue(l.queue)
              r == IF l.err # "none" THEN Raise(dir, file, l.err)
                   ELSE Result(s.dir, s.file, "none", 0, FALSE, <<>>, TRUE)
          IN Complete("resave", <<>>, 0, r) /\ EndRun(r)

NextPersist == SaveAny \/ Resave \/ Load \/ PendingCount

SpecPersist == Init /\ [][NextPersist]_vars

(***************************************************************************)
(* Two callers working on the same output directory.  Every operation is   *)
(* load_queue, a change to the caller's own copy, and save_queue           *)
(* (topics.py:66-75, 85-89, 96-101); nothing locks the file between the    *)
(* load and the save, so the other caller may run in between.  A caller    *)
(* keeps snap (what it loaded), mem (what it saves) and ret (what the      *)
(* call returns).  An operation that saves nothing ends with its load.     *)
(* save_queue is not one step either (topics.py:54-57): the other caller   *)
(* may run after os.makedirs, after open(path, "w") has truncated the file *)
(* and before the text reaches it.  The queues of the model fit the        *)
(* buffer of the file object, so json.dump fills the buffer and the bytes  *)
(* reach the file in one write at offset 0 when the with block closes it.  *)
(***************************************************************************)
\* Number of bytes of the document, the length of json.dump(..., indent=2)
\* (topics.py:57): brackets, braces, keys, quotes, commas and indentation
\* take 110 characters per record.  A file left by an overlapping write
\* (shape "garbage") keeps the bytes of the longer array.
Size(f) ==
    LET ItemSize(item) ==
            110 + Len(item.val.title) + Len(item.val.kind) + Len(item.val.target)
                + Len(item.val.source) + Len(item.val.status) + Len(item.val.added)
        RECURSIVE ItemsSize(_)
        ItemsSize(items) ==
            IF items = <<>> THEN 0
            ELSE ItemSize(Head(items)) + ItemsSize(Tail(items))
    IN IF f.shape \in {"absent", "empty"} THEN 0
       ELSE IF f.items = <<>> THEN 2
       ELSE 4 + 2 * (Len(f.items) - 1) + ItemsSize(f.items)

\* The file after a caller whose open came before the last write of the
\* other caller writes its text at offset 0: the text replaces the file
\* when it is at least as long; otherwise the tail of the longer text
\* stays behind the closing bracket and the file is not JSON.
overwrite(cur, new) ==
    IF Size(cur) <= Size(new) THEN new ELSE Doc("garbage", cur.items)

ConcBegin(p, op, input, index, r) ==
    /\ pc = "idle"
    /\ conc[p].pc = "idle"
    /\ conc' = [conc EXCEPT ![p] =
                  [pc |-> IF r.wrote THEN "makedirs" ELSE "idle",
                   snap |-> Stored(dir, file),
                   mem |-> Stored(r.dir, r.file),
                   ret |-> CallRec(op, input, index, r)]]
    /\ UNCHANGED <<dir, file, pre, last, run, pc, buf, inp, outp>>

ConcAdd(p) ==
    \E topics \in SeqsUpTo(ForeignTopics, 1), now \in NowFor(file) :
        LET r == add_topics(dir, file, topics, now) IN
        /\ Len(Stored(r.dir, r.file)) <= MaxQueue
        /\ ConcBegin(p, "add", topics, 0, r)

ConcPopNext(p) ==
    \E now \in NowFor(file) :
        ConcBegin(p, "pop", <<>>, 0, pop_next(dir, file, now))

ConcSkip(p) ==
    \E now \in NowFor(file) :
        ConcBegin(p, "skip", <<>>, 0, skip_topic(dir, file, 0, now))

\* save_queue(output_dir, queue) with the caller's own queue, step by step:
\* os.makedirs(output_dir, exist_ok=True) (topics.py:54)
ConcMakedirs(p) ==
    /\ conc[p].pc = "makedirs"
    /\ dir' = TRUE
    /\ conc' = [conc EXCEPT ![p].pc = "open"]
    /\ UNCHANGED <<file, pre, last, run, pc, buf, inp, outp>>

\* open(path, "w") truncates topics.json to zero bytes (topics.py:56)
ConcOpen(p) ==
    /\ conc[p].pc = "open"
    /\ file' = Doc("empty", <<>>)
    /\ conc' = [conc EXCEPT ![p].pc = "dump"]
    /\ UNCHANGED <<dir, pre, last, run, pc, buf, inp, outp>>

\* json.dump and the end of the with block (topics.py:57)
ConcDump(p) ==
    /\ conc[p].pc = "dump"
    /\ file' = overwrite(file, save_queue(conc[p].mem).file)
    /\ pre' = [dir |-> dir, file |-> file]
    /\ last' = conc[p].ret
    /\ conc' = [conc EXCEPT ![p].pc = "idle"]
    /\ UNCHANGED <<dir, run, pc, buf, inp, outp>>

NextConc ==
    \E p \in Callers :
        \/ ConcAdd(p) \/ ConcPopNext(p) \/ ConcSkip(p)
        \/ ConcMakedirs(p) \/ ConcOpen(p) \/ ConcDump(p)

SpecConc == Init /\ [][NextConc]_vars

(***************************************************************************)
(* parse_topics_from_response (topics.py:120-163).  The response is the    *)
(* sequence of its lines (response = the lines joined by "\n").  A line is *)
(* described by what the two regular expressions look at:                  *)
(*   hash    number of leading hash characters                             *)
(*   topics  the line is  #+ \s* Topic(s) \s+ to \s+ Explore \s*           *)
(*   blank   the line has only white space                                 *)
(*   bullet  the line begins with  - or *  and white space                 *)
(*   kind    the \w+ between brackets after the bullet ("" if none)        *)
(*   target  the text between backticks after the kind ("" if none)        *)
(*   sep     a dash or colon follows the target                            *)
(*   desc    what follows the separator and its white space on the line    *)
(* In the text of a line the character ~ stands for the backquote, which   *)
(* cannot be written in a string here.                                     *)
(***************************************************************************)
MaxTextLines == 4

TOPIC_KINDS == {"file", "function", "repo", "diff", "general"}

SourceLabel == "explain:a.py"

Line(text, hash, topics, blank, bullet, kind, target, sep, desc) ==
    [text |-> text, hash |-> hash, topics |-> topics, blank |-> blank,
     bullet |-> bullet, kind |-> kind, target |-> target, sep |-> sep,
     desc |-> desc]

TopicsHeading == Line("## Topics to Explore", 2, TRUE, FALSE, FALSE, "", "", FALSE, "")
NotesHeading == Line("## Notes", 2, FALSE, FALSE, FALSE, "", "", FALSE, "")
DetailsHeading == Line("### Details", 3, FALSE, FALSE, FALSE, "", "", FALSE, "")
BulletUpper == Line("- [FILE] ~a.py~ - desc  ", 0, FALSE, FALSE, TRUE, "FILE", "a.py", TRUE, "desc  ")
BulletBogus == Line("- [bogus] ~a.py~: other", 0, FALSE, FALSE, TRUE, "bogus", "a.py", TRUE, "other")
BulletNoKind == Line("- ~a.py~ - desc", 0, FALSE, FALSE, TRUE, "", "a.py", TRUE, "desc")
BulletNoTarget == Line("- [file] a.py - desc", 0, FALSE, FALSE, TRUE, "file", "", TRUE, "desc")
BulletNoDesc == Line("- [repo] ~c.py~ -", 0, FALSE, FALSE, TRUE, "repo", "c.py", TRUE, "")
BlankLine == Line("", 0, FALSE, TRUE, FALSE, "", "", FALSE, "")
ProseLine == Line("Some text.", 0, FALSE, FALSE, FALSE, "", "", FALSE, "")

LineVocabulary ==
    {TopicsHeading, NotesHeading, DetailsHeading, BulletUpper, BulletBogus,
     BulletNoKind, BulletNoTarget, BulletNoDesc, BlankLine}

\* str.lower() on the kind tokens of the vocabulary (topics.py:149)
lower(s) == IF s = "FILE" THEN "file" ELSE s

\* str.strip() on the texts of the vocabulary (topics.py:151)
strip(s) ==
    CASE s = "desc  " -> "desc"
      [] s = "- [FILE] ~a.py~ - desc  " -> "- [FILE] ~a.py~ - desc"
      [] OTHER -> s

\* least element of a set of line numbers, or none
FirstAt(S, none) == IF S = {} THEN none ELSE CHOOSE x \in S : \A y \in S : x <= y

\* re.search of the section pattern (topics.py:137-141).  The heading must
\* be followed by a newline.  \s*\n runs over the blank lines after the
\* heading, so group 1 begins at the first non-blank line, whatever that
\* line is, and the lazy group ends before the next line that begins with
\* a hash character, or at the end of the text.  from > to is an empty
\* group.
section_match(lines) ==
    LET n == Len(lines)
        i == FirstAt({k \in 1..(n - 1) : lines[k].topics}, 0)
        j == FirstAt({k \in (i + 1)..n : ~lines[k].blank}, n + 1)
        e == FirstAt({k \in (j + 1)..n : lines[k].hash > 0}, n + 1)
    IN [found |-> i # 0, heading |-> i, from |-> j, to |-> e - 1]

\* TOPIC_LINE_PATTERN up to and including the separator (topics.py:121-124)
matches_head(l) == l.bullet /\ l.kind # "" /\ l.target # "" /\ l.sep

Match(at, l, desc) == [at |-> at, kind |-> l.kind, target |-> l.target, desc |-> desc]

\* TOPIC_LINE_PATTERN.finditer(section_text) (topics.py:148) from line m to
\* line e.  (.+)$ needs one character: when nothing follows the separator
\* on its line, the \s* before it runs over the newline and the blank lines
\* and the description is the next non-blank line of the section; the scan
\* resumes after the end of the match.
RECURSIVE finditer(_, _, _)
finditer(lines, m, e) ==
    IF m > e THEN <<>>
    ELSE LET l == lines[m]
             nx == FirstAt({q \in (m + 1)..e : ~lines[q].blank}, 0)
         IN IF matches_head(l) /\ l.desc # ""
            THEN <<Match(m, l, l.desc)>> \o finditer(lines, m + 1, e)
            ELSE IF matches_head(l) /\ nx # 0
            THEN <<Match(m, l, lines[nx].text)>> \o finditer(lines, nx + 1, e)
            ELSE finditer(lines, m + 1, e)

\* topics.py:149-154
normal_kind(token) == IF lower(token) \in TOPIC_KINDS THEN lower(token) ELSE "general"

\* parse_topics_from_response(response, source); at[k] is the line at which
\* the k-th match begins.
parse_topics_from_response(lines, source, now) ==
    LET sm == section_match(lines)
        ms == IF sm.found THEN finditer(lines, sm.from, sm.to) ELSE <<>>
    IN [topics |-> [k \in 1..Len(ms) |->
                      Topic(strip(ms[k].desc), normal_kind(ms[k].kind),
                            ms[k].target, source, "pending", now)],
        at |-> [k \in 1..Len(ms) |-> ms[k].at]]

InitParse ==
    /\ dir = FALSE
    /\ file = Absent
    /\ pre = [dir |-> dir, file |-> file]
    /\ last = NoCall
    /\ run = [pending |-> <<>>, rets |-> <<>>]
    /\ pc = "idle"
    /\ buf = NoBuf
    /\ conc = NoConc
    /\ inp \in {[fn |-> "parse", text |-> t, source |-> SourceLabel] :
                   t \in SeqsUpTo(LineVocabulary, MaxTextLines)}
    /\ outp = NoOutput

Parse ==
    /\ inp.fn = "parse"
    /\ ~outp.done
    /\ \E now \in Times :
          LET r == parse_topics_from_response(inp.text, inp.source, now) IN
          outp' = [done |-> TRUE, topics |-> r.topics, at |-> r.at]
    /\ UNCHANGED <<dir, file, pre, last, run, pc, buf, conc, inp>>

NextParse == Parse

SpecParse == InitParse /\ [][NextParse]_vars

(***************************************************************************)
(* extract_symbol (git_utils.py:195-255).  The file content is the         *)
(* sequence content.split("\n") of its lines.  A line is described by what *)
(* the loop looks at:                                                      *)
(*   indent   len(line) - len(line.lstrip())                               *)
(*   blank    line.lstrip() is empty                                       *)
(*   comment  line.lstrip() begins with the comment marker                 *)
(*   kw, name, after   the stripped line begins with the keyword kw, one   *)
(*            space, the identifier name, and then the text after          *)
(***************************************************************************)
MaxFileLines == 4

CodeLine(text, indent, blank, comment, kw, name, after) ==
    [text |-> text, indent |-> indent, blank |-> blank, comment |-> comment,
     kw |-> kw, name |-> name, after |-> after]

DefLine(name) ==
    CodeLine(CASE name = "f" -> "def f(x):"
               [] name = "g" -> "def g(x):"
               [] OTHER -> "def h(x):",
             0, FALSE, FALSE, "def", name, "(")
MethodLine == CodeLine("    def f(x):", 4, FALSE, FALSE, "def", "f", "(")
DefColonLine == CodeLine("def f:", 0, FALSE, FALSE, "def", "f", ":")
ClassLine == CodeLine("class f:", 0, FALSE, FALSE, "class", "f", ":")
AsyncLine == CodeLine("async def f (x):", 0, FALSE, FALSE, "async def", "f", " (")
Stmt0 == CodeLine("x = 1", 0, FALSE, FALSE, "", "", "")
Stmt4 == CodeLine("    x = 1", 4, FALSE, FALSE, "", "", "")
Stmt8 == CodeLine("        x = 1", 8, FALSE, FALSE, "", "", "")
Comment0 == CodeLine("# note", 0, FALSE, TRUE, "", "", "")
EmptyLine == CodeLine("", 0, TRUE, FALSE, "", "", "")

CodeVocabulary ==
    {DefLine("f"), MethodLine, DefColonLine, ClassLine, AsyncLine,
     Stmt0, Stmt4, Stmt8, Comment0, EmptyLine}

\* Variant of starts_definition that does not know async def.
starts_definition_no_async(l, symbol) ==
    /\ l.name = symbol
    /\ \/ l.kw = "def" /\ l.after \in {"(", " ("}
       \/ l.kw = "class" /\ l.after \in {"(", ":", " ("}

\* the seven prefixes tested on the stripped line (git_utils.py:221-229)
starts_definition(l, symbol) ==
    /\ l.name = symbol
    /\ \/ l.kw = "def" /\ l.after \in {"(", " ("}
       \/ l.kw = "class" /\ l.after \in {"(", ":", " ("}
       \/ l.kw = "async def" /\ l.after \in {"(", " ("}

\* Variant of keeps_blank that hands blank lines to the indentation test.
keeps_blank_never(l) == FALSE

\* if not stripped: append and continue (git_utils.py:238-240)
keeps_blank(l) == l.blank

\* Variant of capture_ends that ends only below the base indentation.
capture_ends_below(l, base) == l.indent < base /\ ~l.comment

\* current_indent <= base_indent and stripped and not
\* stripped.startswith("#") (git_utils.py:242-247), for a non-blank line
capture_ends(l, base) == l.indent <= base /\ ~l.comment

\* the loop in its capturing state, from line k on: the numbers of the
\* lines appended to result_lines (git_utils.py:237-250)
RECURSIVE capture(_, _, _)
capture(lines, k, base) ==
    IF k > Len(lines) THEN <<>>
    ELSE IF keeps_blank(lines[k]) THEN <<k>> \o capture(lines, k + 1, base)
    ELSE IF capture_ends(lines[k], base) THEN <<>>
    ELSE <<k>> \o capture(lines, k + 1, base)

\* extract_symbol on the lines of the file: found is FALSE for None; at are
\* the numbers of the lines of the result and lines their texts, which the
\* code joins with "\n".
extract_symbol(lines, symbol) ==
    LET d == FirstAt({k \in 1..Len(lines) : starts_definition(lines[k], symbol)}, 0)
        base == IF d = 0 THEN 0 ELSE lines[d].indent
        at == IF d = 0 THEN <<>> ELSE <<d>> \o capture(lines, d + 1, base)
    IN [found |-> d # 0, base |-> base, at |-> at,
        lines |-> [k \in 1..Len(at) |-> lines[at[k]].text]]

NoStore ==
    /\ dir = FALSE
    /\ file = Absent
    /\ pre = [dir |-> dir, file |-> file]
    /\ last = NoCall
    /\ run = [pending |-> <<>>, rets |-> <<>>]
    /\ pc = "idle"
    /\ buf = NoBuf
    /\ conc = NoConc

InitExtract ==
    /\ NoStore
    /\ inp \in {[fn |-> "extract", text |-> t, symbol |-> "f"] :
                   t \in SeqsUpTo(CodeVocabulary, MaxFileLines) \ {<<>>}}
    /\ outp = NoOutput

Extract ==
    /\ inp.fn = "extract"
    /\ ~outp.done
    /\ LET r == extract_symbol(inp.text, inp.symbol) IN
       outp' = [done |-> TRUE, found |-> r.found, base |-> r.base,
                at |-> r.at, lines |-> r.lines]
    /\ UNCHANGED <<dir, file, pre, last, run, pc, buf, conc, inp>>

NextExtract == Extract

SpecExtract == InitExtract /\ [][NextExtract]_vars

\* The file of the scenario (tests/test_cli.py:99-124): a top-level
\* definition with an indented body, a blank line, a second top-level
\* definition with its body, with or without a newline at the end of the
\* file; the symbol asked for is the first name, the second or neither.
ScenarioNames == {"f", "g", "h"}
ScenarioBodies == {<<Stmt4>>, <<Stmt4, Stmt8>>}
ScenarioEnds == {<<>>, <<EmptyLine>>}

ScenarioFiles ==
    UNION {{<<DefLine(n1)>> \o b1 \o <<EmptyLine>> \o <<DefLine(n2)>> \o b2 \o tail :
               n2 \in ScenarioNames \ {n1},
               b1 \in ScenarioBodies, b2 \in ScenarioBodies, tail \in ScenarioEnds} :
           n1 \in ScenarioNames}

InitScenario ==
    /\ NoStore
    /\ inp \in {[fn |-> "extract", text |-> t, symbol |-> n] :
                   t \in ScenarioFiles, n \in ScenarioNames}
    /\ outp = NoOutput

SpecScenario == InitScenario /\ [][NextExtract]_vars

(***************************************************************************)
(* get_repo_structure (git_utils.py:60-116).  The directory tree under the *)
(* root is the set of the paths of its entries, a path being the sequence  *)
(* of names from the root down; denied holds the directories whose         *)
(* iterdir() raises PermissionError.  An output line is kept as its parts: *)
(* the prefix as the sequence of its four-character segments ("pipe" for   *)
(* a vertical bar and three spaces, "blank" for four spaces), the          *)
(* connector ("tee" for the not-last, "last" for the last-sibling          *)
(* box-drawing connector) and the name.                                    *)
(***************************************************************************)
MaxDepth == 3

skip_dirs ==
    {".git", ".hg", ".svn", "node_modules", "__pycache__",
     ".tox", ".venv", "venv", ".env", "env", ".eggs",
     "dist", "build", ".mypy_cache", ".pytest_cache",
     ".ruff_cache", "htmlcov", ".coverage", "*.egg-info"}

skip_suffixes == {".pyc", ".pyo", ".so", ".o", ".a", ".dylib"}

\* The entries a tree may have; a tree is a subset closed under parents.
TreeUniverse ==
    {<<".git">>, <<".git", "objects">>, <<"build">>, <<".env">>,
     <<"README.md">>, <<"app.py">>, <<"m.pyc">>,
     <<"src">>, <<"src", "build">>, <<"src", "x.egg-info">>,
     <<"src", "pkg">>, <<"src", "pkg", "main.py">>,
     <<"src", "pkg", "sub">>, <<"src", "pkg", "sub", "deep.py">>}

\* the entries of the universe that are directories (the others are files)
DirPaths ==
    {<<".git">>, <<".git", "objects">>, <<"build">>, <<"src">>,
     <<"src", "x.egg-info">>, <<"src", "pkg">>, <<"src", "pkg", "sub">>}

Parent(p) == SubSeq(p, 1, Len(p) - 1)

Trees == {t \in SUBSET TreeUniverse : \A p \in t : Len(p) > 1 => Parent(p) \in t}

DeniedChoices == {<<"src">>, <<"src", "pkg">>}

\* Path.suffix on the names of the universe
suffix(name) ==
    CASE name = "README.md" -> ".md"
      [] name \in {"app.py", "main.py", "deep.py"} -> ".py"
      [] name = "m.pyc" -> ".pyc"
      [] name = "x.egg-info" -> ".egg-info"
      [] OTHER -> ""

\* name.startswith(".") and name.endswith(".egg-info") on those names
starts_with_dot(name) == name \in {".env", ".git"}
ends_with_egg_info(name) == name = "x.egg-info"

\* the order of str on those names: the place of the name in sorted(names)
name_rank(name) ==
    CASE name = ".env" -> 1 [] name = ".git" -> 2 [] name = "README.md" -> 3
      [] name = "app.py" -> 4 [] name = "build" -> 5 [] name = "deep.py" -> 6
      [] name = "m.pyc" -> 7 [] name = "main.py" -> 8 [] name = "objects" -> 9
      [] name = "pkg" -> 10 [] name = "src" -> 11 [] name = "sub" -> 12
      [] OTHER -> 13

Entry(p) == [path |-> p, name |-> p[Len(p)], is_dir |-> p \in DirPaths]

\* dir_path.iterdir()
iterdir(tree, p) == {Entry(q) : q \in {x \in tree : Len(x) = Len(p) + 1 /\ Parent(x) = p}}

\* Variant of key_less that sorts by name alone.
key_less_name(a, b) == name_rank(a.name) < name_rank(b.name)

\* key=lambda e: (not e.is_dir(), e.name) (git_utils.py:87)
key_less(a, b) ==
    \/ a.is_dir /\ ~b.is_dir
    \/ a.is_dir = b.is_dir /\ name_rank(a.name) < name_rank(b.name)

RECURSIVE sorted(_)
sorted(S) ==
    IF S = {} THEN <<>>
    ELSE LET m == CHOOSE a \in S : \A b \in S \ {a} : key_less(a, b)
         IN <<m>> \o sorted(S \ {m})

\* Variant of skipped that ignores whether the entry is a directory.
skipped_any_kind(e) ==
    \/ e.name \in skip_dirs
    \/ ends_with_egg_info(e.name)
    \/ suffix(e.name) \in skip_suffixes

\* the four tests of the filter (git_utils.py:94-101)
skipped(e) ==
    \/ starts_with_dot(e.name) /\ e.name \in skip_dirs
    \/ e.is_dir /\ e.name \in skip_dirs
    \/ e.is_dir /\ ends_with_egg_info(e.name)
    \/ ~e.is_dir /\ suffix(e.name) \in skip_suffixes

filtered(entries) == SelectSeq(entries, LAMBDA e : ~skipped(e))

\* Variant of past_depth that stops one level early.
past_depth_early(depth, max_depth) == depth >= max_depth

\* if depth > max_depth: return (git_utils.py:83-84)
past_depth(depth, max_depth) == depth > max_depth

\* Variant of extension that always continues the vertical bar.
extension_pipe(is_last) == "pipe"

\* extension = "    " if is_last else the bar (git_utils.py:110)
extension(is_last) == IF is_last THEN "blank" ELSE "pipe"

\* connector (git_utils.py:106)
connector(is_last) == IF is_last THEN "last" ELSE "tee"

TreeLine(p, name, prefix, conn) ==
    [path |-> p, name |-> name, prefix |-> prefix, connector |-> conn]

\* _walk (git_utils.py:82-111); walk_entries is its loop over filtered
RECURSIVE walk(_, _, _, _, _, _)
RECURSIVE walk_entries(_, _, _, _, _, _, _)
walk_entries(tree, denied, f, i, prefix, depth, max_depth) ==
    IF i > Len(f) THEN <<>>
    ELSE LET e == f[i]
             is_last == i = Len(f)
             below == IF e.is_dir
                      THEN walk(tree, denied, e.path,
                                prefix \o <<extension(is_last)>>, depth + 1, max_depth)
                      ELSE <<>>
         IN <<TreeLine(e.path, e.name, prefix, connector(is_last))>> \o below
            \o walk_entries(tree, denied, f, i + 1, prefix, depth, max_depth)

walk(tree, denied, p, prefix, depth, max_depth) ==
    IF past_depth(depth, max_depth) THEN <<>>
    ELSE IF p \in denied THEN <<>>
    ELSE walk_entries(tree, denied, filtered(sorted(iterdir(tree, p))), 1,
                      prefix, depth, max_depth)

\* lines.append(root.name + "/"); _walk(root, "", 1) (git_utils.py:113-114)
get_repo_structure(tree, denied, max_depth) ==
    <<TreeLine(<<>>, "root/", <<>>, "none")>>
    \o walk(tree, denied, <<>>, <<>>, 1, max_depth)

InitTree ==
    /\ NoStore
    /\ inp \in {[fn |-> "tree", tree |-> t, denied |-> d, max_depth |-> m] :
                   t \in Trees, d \in {{}} \cup {{p} : p \in DeniedChoices},
                   m \in 0..MaxDepth}
    /\ inp.denied \subseteq inp.tree
    /\ outp = NoOutput

Tree ==
    /\ inp.fn = "tree"
    /\ ~outp.done
    /\ outp' = [done |-> TRUE,
                lines |-> get_repo_structure(inp.tree, inp.denied, inp.max_depth)]
    /\ UNCHANGED <<dir, file, pre, last, run, pc, buf, conc, inp>>

NextTree == Tree

SpecTree == InitTree /\ [][NextTree]_vars

(***************************************************************************)
(* One exploration session of a single caller (cli.py:51-58, 529-576): the *)
(* caller adds Topics, skips pending Topics and runs the next command,     *)
(* which pops a Topic, dispatches it on its kind and, when an explanation  *)
(* was generated, enqueues the Topics parsed from it.  In this             *)
(* specification pc is "dispatch" between the pop and the end of the       *)
(* dispatch, buf.ret holds the pop, and outp keeps the history of the      *)
(* session: the targets popNext returned, in order, the targets skipped,   *)
(* the targets whose dispatch ended without an explanation, and what the   *)
(* last next command reported.                                             *)
(***************************************************************************)
NoHistory ==
    [done |-> FALSE, popped |-> <<>>, skipped |-> {}, failed |-> {}, report |-> "none"]

\* The Topics of a session: the parser yields the first three; the fourth
\* has a kind the dispatch does not know and is added by a caller.
ParsedTopics == {MkTopic("a.py", 1), MkTopic("a.py", 2), MkTopic("b.py", 1)}
SessionTopics == ParsedTopics \cup {Topic("T3", "widget", "c.py", "", "pending", "t0")}

\* ":" in topic.target (cli.py:627); no target of the session holds a colon
has_colon(target) == FALSE

\* How the dispatch of next_topic can end (cli.py:555-570 and the _run_*
\* functions): "return" when the handler gives up (file, function and diff
\* handlers: file not found, symbol not found, target without a colon, no
\* diff), "exit" for sys.exit(1) (unknown kind, model not available,
\* generation error), "explained" when the explanation was generated and
\* _enqueue_topics is called.
dispatch_outcomes(topic) ==
    IF topic.kind \notin TOPIC_KINDS THEN {"exit"}
    ELSE IF topic.kind = "function" /\ ~has_colon(topic.target) THEN {"return"}
    ELSE IF topic.kind \in {"repo", "general"} THEN {"exit", "explained"}
    ELSE {"return", "exit", "explained"}

\* _save_output (cli.py:44-48): os.makedirs creates the output directory
\* before the explanation is written into it
save_output(d) == TRUE

\* _enqueue_topics (cli.py:51-58): add_topics is called only for a
\* non-empty list
enqueue_topics(d, f, new_topics, now) ==
    IF new_topics = <<>> THEN Result(d, f, "none", 0, FALSE, <<>>, FALSE)
    ELSE add_topics(d, f, new_topics, now)

\* cli.py:570-574
remaining_report(d, f) ==
    IF pending_count(d, f, "t0").n # 0 THEN "remaining" ELSE "complete"

InitSession ==
    /\ NoStore
    /\ inp = NoInput
    /\ outp = NoHistory

SessAdd ==
    /\ pc = "idle"
    /\ \E topics \in SeqsUpTo(SessionTopics, MaxInput) \ {<<>>}, now \in NowFor(file) :
          LET r == add_topics(dir, file, topics, now) IN
          /\ Len(Stored(r.dir, r.file)) <= MaxQueue
          /\ Complete("add", topics, 0, r)
    /\ UNCHANGED run

\* Most Topics in the response of an explanation command of a session (the
\* responses of the next command carry up to MaxInput).
MaxParsed == 1

\* An explanation command (file, function, repo, diff: cli.py:143-188,
\* 272-276, 345-349, 442-446) that generated its explanation: the
\* explanation is saved, then the Topics parsed from it are enqueued; the
\* Store is called (add_topics) only when the parser found Topics.
SessExplain ==
    /\ pc = "idle"
    /\ \E topics \in SeqsUpTo(ParsedTopics, MaxParsed), now \in NowFor(file) :
          LET r == enqueue_topics(save_output(dir), file, topics, now) IN
          /\ Len(Stored(r.dir, r.file)) <= MaxQueue
          /\ IF topics = <<>>
             THEN /\ dir' = r.dir
                  /\ UNCHANGED <<file, pre, last, pc, buf, conc, inp, outp>>
             ELSE Complete("add", topics, 0, r)
    /\ UNCHANGED <<run>>

\* skip_topic(output_dir, index); next --skip calls it with index 0
SessSkip ==
    /\ pc = "idle"
    /\ \E index \in 0..1, now \in NowFor(file) :
          LET r == skip_topic(dir, file, index, now)
              q == Stored(dir, file)
              p == pending_positions(q)
          IN /\ dir' = r.dir
             /\ file' = r.file
             /\ pre' = [dir |-> dir, file |-> file]
             /\ last' = CallRec("skip", <<>>, index, r)
             /\ outp' = IF r.flag
                        THEN [outp EXCEPT !.skipped = @ \cup {q[p[index + 1]].target}]
                        ELSE outp
    /\ UNCHANGED <<run, pc, buf, conc, inp>>

\* next_topic up to the dispatch (cli.py:544-553)
NextPop ==
    /\ pc = "idle"
    /\ \E now \in NowFor(file) :
          LET r == pop_next(dir, file, now) IN
          /\ dir' = r.dir
          /\ file' = r.file
          /\ pre' = [dir |-> dir, file |-> file]
          /\ last' = CallRec("pop", <<>>, 0, r)
          /\ IF r.out = <<>>
             THEN /\ pc' = "idle"
                  /\ buf' = buf
                  /\ outp' = [outp EXCEPT !.report = "no pending"]
             ELSE /\ pc' = "dispatch"
                  /\ buf' = [file |-> Absent, ret |-> CallRec("pop", <<>>, 0, r)]
                  /\ outp' = [outp EXCEPT !.popped = Append(@, r.out[1].target),
                                          !.report = "next topic"]
    /\ UNCHANGED <<run, conc, inp>>

\* the dispatch and the end of next_topic (cli.py:555-574)
NextDispatch ==
    /\ pc = "dispatch"
    /\ LET topic == buf.ret.out[1] IN
       \E outcome \in dispatch_outcomes(topic) :
          \/ /\ outcome = "return"
             /\ outp' = [outp EXCEPT !.failed = @ \cup {topic.target},
                                     !.report = remaining_report(dir, file)]
             /\ last' = [buf.ret EXCEPT !.op = "return"]
             /\ UNCHANGED <<dir, file>>
          \/ /\ outcome = "exit"
             /\ outp' = [outp EXCEPT !.failed = @ \cup {topic.target},
                                     !.report = "error"]
             /\ last' = [buf.ret EXCEPT !.op = "exit"]
             /\ UNCHANGED <<dir, file>>
          \/ /\ outcome = "explained"
             /\ \E topics \in SeqsUpTo(ParsedTopics, MaxInput), now \in NowFor(file) :
                   LET r == enqueue_topics(save_output(dir), file, topics, now) IN
                   /\ Len(Stored(r.dir, r.file)) <= MaxQueue
                   /\ dir' = r.dir
                   /\ file' = r.file
                   /\ last' = CallRec("explained", topics, 0, r)
                   /\ outp' = [outp EXCEPT !.report = remaining_report(r.dir, r.file)]
    /\ pre' = [dir |-> dir, file |-> file]
    /\ pc' = "idle"
    /\ buf' = NoBuf
    /\ UNCHANGED <<run, conc, inp>>

NextSession == SessAdd \/ SessExplain \/ SessSkip \/ NextPop \/ NextDispatch

SpecSession == InitSession /\ [][NextSession]_vars

\* A session in which, after a first explanation command (which saved its
\* explanation and enqueued the Topics parsed from it) and possibly an
\* add_topics of a Topic of a kind the dispatch does not know, the caller
\* only runs the next command, and keeps running it.
InitNext ==
    /\ \E topics \in SeqsUpTo(ParsedTopics, MaxInput),
          more \in SeqsUpTo(SessionTopics \ ParsedTopics, 1) :
          LET e == enqueue_topics(save_output(FALSE), Absent, topics, "t0")
              r == IF more = <<>> THEN e ELSE add_topics(e.dir, e.file, more, "t0")
          IN /\ dir = r.dir
             /\ file = r.file
    /\ pre = [dir |-> dir, file |-> file]
    /\ last = NoCall
    /\ run = [pending |-> <<>>, rets |-> <<>>]
    /\ pc = "idle"
    /\ buf = NoBuf
    /\ conc = NoConc
    /\ inp = NoInput
    /\ outp = NoHistory

NextNext == NextPop \/ NextDispatch

SpecNext == InitNext /\ [][NextNext]_vars

LiveNext == SpecNext /\ WF_vars(NextPop) /\ WF_vars(NextDispatch)

(***************************************************************************)
(* extract_symbol line by line (git_utils.py:215-255): one step is one     *)
(* pass of the for loop.  While the call runs outp holds the loop state:   *)
(* phase "searching" (capturing is False), "capturing", "ended" (after the *)
(* break) or "spinning" (inside the while loop of line 232, whose body     *)
(* changes nothing), i the number of the next line, base the base          *)
(* indentation and at the numbers of the lines in result_lines.            *)
(***************************************************************************)
DecoratorLine == CodeLine("@d", 0, FALSE, FALSE, "@", "", "")

StepVocabulary ==
    {DefLine("f"), MethodLine, DecoratorLine, Stmt0, Stmt4, Comment0, EmptyLine}

\* result_lines[-1].strip().startswith("@") (git_utils.py:232)
is_decorator(l) == l.kw = "@"

\* Variant of search_keeps that collects the decorator lines it passes.
search_keeps_decorator(l) == is_decorator(l)

\* while not capturing, a line that starts no definition is not appended
\* to result_lines (git_utils.py:219-235, 237)
search_keeps(l) == FALSE

\* the condition of the while loop (git_utils.py:232)
loop_condition(lines, at) == at # <<>> /\ is_decorator(lines[at[Len(at)]])

LoopState(phase, i, base, at) ==
    [done |-> FALSE, phase |-> phase, i |-> i, base |-> base, at |-> at]

InitExtractSteps ==
    /\ NoStore
    /\ inp \in {[fn |-> "extract", text |-> t, symbol |-> "f"] :
                   t \in SeqsUpTo(StepVocabulary, MaxFileLines) \ {<<>>}}
    /\ outp = LoopState("searching", 1, 0, <<>>)

\* one pass of the loop body
ExtractLine ==
    /\ inp.fn = "extract"
    /\ ~outp.done
    /\ outp.phase \in {"searching", "capturing"}
    /\ outp.i <= Len(inp.text)
    /\ LET l == inp.text[outp.i]
           k == outp.i
       IN outp' =
            IF outp.phase = "searching"
            THEN IF starts_definition(l, inp.symbol)
                 THEN IF loop_condition(inp.text, outp.at)
                      THEN LoopState("spinning", k, l.indent, outp.at)
                      ELSE LoopState("capturing", k + 1, l.indent, Append(outp.at, k))
                 ELSE LoopState("searching", k + 1, outp.base,
                                IF search_keeps(l) THEN Append(outp.at, k) ELSE outp.at)
            ELSE IF keeps_blank(l)
                 THEN LoopState("capturing", k + 1, outp.base, Append(outp.at, k))
                 ELSE IF capture_ends(l, outp.base)
                 THEN LoopState("ended", k, outp.base, outp.at)
                 ELSE LoopState("capturing", k + 1, outp.base, Append(outp.at, k))
    /\ UNCHANGED <<dir, file, pre, last, run, pc, buf, conc, inp>>

\* the end of the loop and the return (git_utils.py:252-255)
ExtractReturn ==
    /\ inp.fn = "extract"
    /\ ~outp.done
    /\ outp.phase = "ended" \/ (outp.phase \in {"searching", "capturing"}
                                /\ outp.i > Len(inp.text))
    /\ outp' = [done |-> TRUE, found |-> outp.at # <<>>, base |-> outp.base,
                at |-> outp.at,
                lines |-> [k \in 1..Len(outp.at) |-> inp.text[outp.at[k]].text]]
    /\ UNCHANGED <<dir, file, pre, last, run, pc, buf, conc, inp>>

NextExtractSteps == ExtractLine \/ ExtractReturn

SpecExtractSteps == InitExtractSteps /\ [][NextExtractSteps]_vars

\* the call keeps running
LiveExtractSteps ==
    SpecExtractSteps /\ WF_vars(ExtractLine) /\ WF_vars(ExtractReturn)

(***************************************************************************)
(* Vocabulary of the properties.                                           *)
(***************************************************************************)
Before == Stored(pre.dir, pre.file)
After == Stored(dir, file)

IsPending(t) == t.status = "pending"
TargetsOf(q) == {q[i].target : i \in 1..Len(q)}
SetStatus(q, i, st) == [q EXCEPT ![i].status = st]

\* Position of the first pending Topic of q (q has one).
FirstPending(q) ==
    CHOOSE i \in 1..Len(q) :
        IsPending(q[i]) /\ \A j \in 1..(i - 1) : ~IsPending(q[j])

\* Position of the Topic that has exactly n pending Topics before it and is
\* pending itself (q has more than n pending Topics).
NthPending(q, n) ==
    CHOOSE i \in 1..Len(q) :
        IsPending(q[i]) /\ Cardinality({j \in 1..(i - 1) : IsPending(q[j])}) = n

\* Positions at which two sequences of equal length differ.
Changed(q1, q2) == {i \in 1..Len(q1) : q1[i] # q2[i]}

\* Indices of the input of add that name a target neither stored already nor
\* given earlier in the same input.
FreshIdx(old, input) ==
    {i \in 1..Len(input) :
        /\ input[i].target \notin TargetsOf(old)
        /\ \A j \in 1..(i - 1) : input[j].target # input[i].target}

\* The elements of input at the indices K, in input order.
Pick(input, K) ==
    LET idx == SelectSeq([i \in 1..Len(input) |-> i], LAMBDA i : i \in K)
    IN [k \in 1..Len(idx) |-> input[idx[k]]]

HasEqualTargets(input) ==
    \E i, j \in 1..Len(input) : i < j /\ input[i].target = input[j].target

(***************************************************************************)
(* C1: add appends exactly the input Topics whose target is neither stored *)
(* already nor given earlier in the same call, in input order, and returns *)
(* how many it appended; an input with two equal targets returns less than *)
(* its length.                                                             *)
(***************************************************************************)
C1_AddDeduplicates ==
    (last.op = "add" /\ last.err = "none") =>
        LET K == FreshIdx(Before, last.input) IN
        /\ After = Before \o Pick(last.input, K)
        /\ last.n = Cardinality(K)
        /\ HasEqualTargets(last.input) => last.n < Len(last.input)

C1_Witness ==
    /\ last.op = "add" /\ last.err = "none"
    /\ Len(last.input) = 2
    /\ last.input[1].target = last.input[2].target
    /\ last.input[1].kind # last.input[2].kind
    /\ last.n = 1
    /\ Len(Before) = 1
    /\ After = Append(Before, last.input[1])

(***************************************************************************)
(* C2: popNext on a queue with a pending Topic marks the first pending     *)
(* Topic in stored order done, persists the whole sequence and returns     *)
(* that Topic with status done; every other Topic keeps its status.        *)
(***************************************************************************)
C2_PopNextFirstPending ==
    (last.op = "pop" /\ last.err = "none" /\ PendingOf(Before) # <<>>) =>
        LET k == FirstPending(Before) IN
        /\ last.out = <<[Before[k] EXCEPT !.status = "done"]>>
        /\ After = SetStatus(Before, k, "done")
        /\ last.wrote /\ file = Encode(After)
        /\ \A j \in 1..(k - 1) : After[j].status \in {"done", "skipped"}

C2_Witness ==
    /\ last.op = "pop" /\ last.err = "none"
    /\ Len(Before) = 3
    /\ Before[1].status = "skipped"
    /\ Before[2].status = "pending" /\ Before[3].status = "pending"
    /\ last.out = <<After[2]>> /\ After[2].status = "done"
    /\ After[3].status = "pending"

(***************************************************************************)
(* C3: in a run of consecutive popNext calls on a queue with N pending     *)
(* Topics, the i-th call (i <= N) returns the i-th pending Topic, every    *)
(* later call returns empty, and no Topic is pending after N calls.        *)
(***************************************************************************)
C3_PopRun ==
    LET N == Len(run.pending) IN
    /\ \A i \in 1..Len(run.rets) :
          IF i <= N
          THEN run.rets[i] = <<[run.pending[i] EXCEPT !.status = "done"]>>
          ELSE run.rets[i] = <<>>
    /\ Len(run.rets) >= N => PendingOf(After) = <<>>

C3_Witness ==
    /\ Len(run.pending) = 2
    /\ Len(run.rets) = 3
    /\ Len(After) = 3
    /\ run.rets[1] # run.rets[2]
    /\ run.rets[3] = <<>>

(***************************************************************************)
(* C4: skip(index) counts index over the pending Topics in stored order:   *)
(* in range it marks exactly that pending Topic skipped, persists and      *)
(* returns true, out of range (negative or too large) it returns false;    *)
(* two consecutive skip(0) calls skip two different Topics, the first      *)
(* pending one and then the new first pending one.                         *)
(***************************************************************************)
C4_SkipResult ==
    last.op = "skip" =>
        /\ last.err = "none"
        /\ IF 0 <= last.index /\ last.index < Len(PendingOf(Before))
           THEN /\ last.flag /\ last.wrote
                /\ After = SetStatus(Before, NthPending(Before, last.index), "skipped")
           ELSE ~last.flag

C4_SkipTwice ==
    (/\ last.op = "skip" /\ last.index = 0 /\ last.flag
     /\ last'.op = "skip" /\ last'.index = 0 /\ last'.flag) =>
        LET q0 == Before
            q1 == After
            q2 == Stored(dir', file')
        IN /\ Changed(q0, q1) = {FirstPending(q0)}
           /\ Changed(q1, q2) = {FirstPending(q1)}
           /\ FirstPending(q0) # FirstPending(q1)
           /\ q2[FirstPending(q0)].status = "skipped"
           /\ q2[FirstPending(q1)].status = "skipped"

\* C4: skip(index) acts on the index-th pending Topic or returns false, and
\* two skip(0) calls in a row skip successive pending Topics.
C4_SkipPendingRelative == [](C4_SkipResult) /\ [][C4_SkipTwice]_vars

C4_Witness ==
    /\ last.op = "skip" /\ last.index = 0 /\ last.flag
    /\ Len(Before) = 3
    /\ Before[1].status = "skipped"
    /\ Before[2].status = "pending" /\ After[2].status = "skipped"
    /\ After[3].status = "pending"

(***************************************************************************)
(* C5: a step changes the status of a stored Topic only from pending to    *)
(* done or from pending to skipped; a done or skipped Topic keeps its      *)
(* status.                                                                 *)
(***************************************************************************)
C5_StatusStep ==
    LET q == Stored(dir, file)
        q2 == Stored(dir', file')
    IN \A i \in 1..Len(q) :
          /\ i <= Len(q2)
          /\ q2[i].target = q[i].target
          /\ q2[i].status # q[i].status =>
                q[i].status = "pending" /\ q2[i].status \in {"done", "skipped"}

\* C5: every step changes a status only from pending to done or skipped.
C5_StatusMonotonic == [][C5_StatusStep]_vars

C5_Witness ==
    /\ last.op = "skip" /\ last.flag
    /\ Len(Before) = 3
    /\ Before[last.index + 1].status = "done"
    /\ After[last.index + 1].status = "done"
    /\ \E i \in 1..3 : Before[i].status = "skipped"

(***************************************************************************)
(* C6: no operation removes or reorders a Topic: the targets persisted     *)
(* before a call are a prefix of the targets persisted after it.           *)
(***************************************************************************)
C6_PrefixPreserved ==
    /\ Len(Before) <= Len(After)
    /\ \A i \in 1..Len(Before) : After[i].target = Before[i].target
    /\ last.op \in {"pop", "skip", "count", "load"} => Len(After) = Len(Before)

C6_Witness ==
    /\ last.op = "add" /\ last.n = 1
    /\ Len(Before) = 2
    /\ Before[1].status = "done" /\ Before[2].status = "skipped"
    /\ After[1] = Before[1] /\ After[2] = Before[2]
    /\ After[3] = last.input[Len(last.input)]

(***************************************************************************)
(* C7: a successful popNext or skip changes the status of exactly one      *)
(* stored Topic and no other field of any Topic; add leaves every Topic    *)
(* stored before unchanged.                                                *)
(***************************************************************************)
C7_FrameStatusOnly ==
    /\ (last.err = "none" /\ ((last.op = "pop" /\ last.out # <<>>)
                              \/ (last.op = "skip" /\ last.flag))) =>
          /\ Len(After) = Len(Before)
          /\ Cardinality(Changed(Before, After)) = 1
          /\ \A i \in Changed(Before, After) :
                /\ After[i].status # Before[i].status
                /\ After[i] = [Before[i] EXCEPT !.status = After[i].status]
    /\ (last.err = "none" /\ last.op = "add") =>
          \A i \in 1..Len(Before) : After[i] = Before[i]

C7_Witness ==
    /\ last.op = "pop" /\ last.out # <<>>
    /\ Len(Before) = 3
    /\ Before[1].status = "pending" /\ Before[1].added = "t1"
    /\ Before[2].status = "pending" /\ After[2] = Before[2]
    /\ After[1].added = "t1" /\ After[1].status = "done"

(***************************************************************************)
(* C8: an add that appends nothing, a popNext that finds no pending Topic  *)
(* and a skip whose index is outside the pending Topics write nothing: the *)
(* persisted state is as before, and is not created when it was absent.    *)
(***************************************************************************)
NothingToDo ==
    /\ last.err = "none"
    /\ \/ last.op = "add" /\ FreshIdx(Before, last.input) = {}
       \/ last.op = "pop" /\ PendingOf(Before) = <<>>
       \/ last.op = "skip" /\ ~(0 <= last.index /\ last.index < Len(PendingOf(Before)))

C8_NoWriteWhenIdle ==
    NothingToDo => ~last.wrote /\ file = pre.file /\ dir = pre.dir

C8_Witness ==
    /\ NothingToDo
    /\ last.op = "add"
    /\ ~pre.dir /\ pre.file = Absent
    /\ ~dir /\ file = Absent

(***************************************************************************)
(* C9: load returns the empty sequence when nothing is persisted; when     *)
(* topics.json exists and is not an array of Topic records, load, add,     *)
(* popNext, skip and pendingCount all fail and leave the file as it is.    *)
(***************************************************************************)
\* The persisted layout: an array of records that carry the Topic fields
\* (the fields with a default may be left out).
MatchesSchema(f) ==
    /\ f.shape = "array"
    /\ \A i \in 1..Len(f.items) :
          /\ f.items[i].form = "dict"
          /\ RequiredFields \subseteq f.items[i].keys
          /\ f.items[i].keys \subseteq FieldNames

C9_CorruptSurfaced ==
    /\ (last.op = "load" /\ (~pre.dir \/ pre.file = Absent)) =>
          last.err = "none" /\ last.out = <<>>
    /\ (last.op # "init" /\ pre.dir /\ pre.file # Absent /\ ~MatchesSchema(pre.file)) =>
          last.err # "none" /\ file = pre.file

(***************************************************************************)
(* C10: while save_queue runs, and after it was interrupted, loading       *)
(* topics.json yields the complete previous sequence or the complete new   *)
(* one.                                                                    *)
(***************************************************************************)
C10_AtomicSave ==
    (pc # "idle" \/ last.err = "Interrupted") =>
        LET l == load_queue(dir, file, "t0") IN
        /\ l.err = "none"
        /\ l.queue = Stored(pre.dir, pre.file) \/ l.queue = Stored(TRUE, buf.file)

(***************************************************************************)
(* C11: load after save(q) returns q (same length, order and field values) *)
(* and save(load()) leaves an existing topics.json exactly as it was.      *)
(***************************************************************************)
C11_RoundTrip ==
    /\ last.op = "save" =>
          \A now \in Times :
              LET l == load_queue(dir, file, now) IN
              l.err = "none" /\ l.queue = last.input
    /\ (last.op = "resave" /\ pre.file # Absent) =>
          last.err = "none" /\ file = pre.file

C11_Witness ==
    /\ last.op = "resave" /\ last.wrote
    /\ pre.file # Absent /\ file = pre.file
    /\ Len(After) = 2
    /\ After[1].status = "done" /\ After[1].added = "t1"
    /\ After[2].status = "pending" /\ After[2].target = After[1].target

(***************************************************************************)
(* C12: pendingCount returns the number of pending Topics of the persisted *)
(* sequence, 0 when nothing is persisted, and writes nothing.              *)
(***************************************************************************)
C12_PendingCount ==
    last.op = "count" =>
        /\ last.err = "none"
        /\ last.n = Cardinality({i \in 1..Len(Before) : IsPending(Before[i])})
        /\ (~pre.dir \/ pre.file = Absent) => last.n = 0
        /\ ~last.wrote /\ file = pre.file /\ dir = pre.dir

C12_Witness ==
    /\ last.op = "count" /\ last.n = 1
    /\ Len(Before) = 2
    /\ Before[1].status = "skipped" /\ Before[2].status = "pending"

(***************************************************************************)
(* C13: with two unlocked callers the last save wins.  A save whose write  *)
(* is not shorter than what the file holds leaves exactly the caller's own *)
(* copy persisted (what it loaded plus its own change), a popNext returns  *)
(* the first pending Topic of what that caller loaded, and so two callers  *)
(* that loaded the same sequence pop the same Topic; changes saved by the  *)
(* other caller between a caller's load and its save are absent            *)
(* afterwards.                                                             *)
(***************************************************************************)
C13_PopOfSnapshot ==
    \A p \in Callers :
        LET c == conc[p] IN
        (c.ret.op = "pop" /\ c.ret.err = "none") =>
            IF PendingOf(c.snap) = <<>>
            THEN c.ret.out = <<>> /\ c.mem = c.snap
            ELSE /\ c.ret.out = <<[c.snap[FirstPending(c.snap)] EXCEPT !.status = "done"]>>
                 /\ c.mem = SetStatus(c.snap, FirstPending(c.snap), "done")

C13_SamePop ==
    \A p, q \in Callers :
        (/\ conc[p].ret.op = "pop" /\ conc[q].ret.op = "pop"
         /\ conc[p].snap = conc[q].snap) =>
            conc[p].ret.out = conc[q].ret.out

C13_SaveStep ==
    \A p \in Callers :
        (conc[p].pc = "dump" /\ conc'[p].pc = "idle"
            /\ Size(file) <= Size(Encode(conc[p].mem))) =>
            /\ file'.shape = "array"
            /\ Stored(dir', file') = conc[p].mem

\* C13: the last save wins, and callers that loaded the same sequence pop
\* the same Topic.
C13_LastSaveWins ==
    [](C13_PopOfSnapshot /\ C13_SamePop) /\ [][C13_SaveStep]_vars

C13_Witness ==
    /\ conc[1].pc = "idle" /\ conc[2].pc = "idle"
    /\ conc[1].ret.op = "pop" /\ conc[2].ret.op = "pop"
    /\ conc[1].ret.wrote /\ conc[2].ret.wrote
    /\ conc[1].ret.out # <<>>
    /\ conc[1].ret.out = conc[2].ret.out
    /\ Len(After) = 2 /\ After[2].status = "pending"

(***************************************************************************)
(* Vocabulary of the parser properties.                                    *)
(***************************************************************************)
\* a bullet line of the exact shape of step 3: kind, target, separator and
\* a description on the line
WellFormed(l) == matches_head(l) /\ l.desc # ""

\* a bullet line missing the bracketed kind or the delimited target
Malformed(l) == l.bullet /\ (l.kind = "" \/ l.target = "")

\* the first heading line matching Topic(s) to Explore, 0 if none
HeadingLine(lines) == FirstAt({k \in 1..Len(lines) : lines[k].topics}, 0)

\* the next heading line of equal or higher level after line h
NextPeerHeading(lines, h) ==
    FirstAt({k \in (h + 1)..Len(lines) :
                lines[k].hash > 0 /\ lines[k].hash <= lines[h].hash},
            Len(lines) + 1)

MatchLines == {outp.at[k] : k \in 1..Len(outp.at)}

\* the Topic a well-formed bullet line describes
TopicOfLine(l, source, now) ==
    Topic(strip(l.desc), normal_kind(l.kind), l.target, source, "pending", now)

SameButAdded(t, u) == [t EXCEPT !.added = "t0"] = [u EXCEPT !.added = "t0"]

(***************************************************************************)
(* C14: parse only produces Topics from bullet lines between the Topic(s)  *)
(* to Explore heading and the next heading of equal or higher level (or    *)
(* the end of the text): a bullet after that next heading never yields a   *)
(* Topic, and a deeper sub-heading inside the section does not end it, so  *)
(* (in a text without a bullet that lacks its description) every           *)
(* well-formed bullet of that region yields a Topic.                       *)
(***************************************************************************)
C14_SectionByLevel ==
    outp.done =>
        LET lines == inp.text
            h == HeadingLine(lines)
            peer == IF h = 0 THEN 0 ELSE NextPeerHeading(lines, h)
        IN /\ \A m \in MatchLines : h # 0 /\ h < m /\ m < peer
           /\ (h # 0 /\ \A k \in 1..Len(lines) : lines[k] # BulletNoDesc) =>
                 \A m \in (h + 1)..(peer - 1) :
                     WellFormed(lines[m]) => m \in MatchLines

(***************************************************************************)
(* C15: parse returns one Topic per matched bullet line of the section, in *)
(* order of appearance and without deduplication; each has the lower-cased *)
(* kind if it is a known kind and general otherwise, the target verbatim,  *)
(* the trimmed description as title, the source label of the caller and    *)
(* status pending.  The section is the one the pattern captures.           *)
(***************************************************************************)
C15_OnePerBullet ==
    outp.done =>
        LET lines == inp.text
            sm == section_match(lines)
            wf == IF sm.found
                  THEN SelectSeq([k \in 1..Len(lines) |-> k],
                                 LAMBDA k : sm.from <= k /\ k <= sm.to
                                            /\ WellFormed(lines[k]))
                  ELSE <<>>
        IN /\ Len(outp.topics) = Len(wf)
           /\ \A k \in 1..Len(wf) :
                 SameButAdded(outp.topics[k],
                              TopicOfLine(lines[wf[k]], inp.source, "t0"))

(***************************************************************************)
(* C16: malformed input is recovered locally.  A text with no Topic(s) to  *)
(* Explore heading, or a heading with no bullets beneath it, yields the    *)
(* empty sequence; a bullet line missing its kind or its target yields no  *)
(* Topic and does not change the Topics produced from the other lines:     *)
(* the result is the one obtained with plain text in place of each such    *)
(* line.                                                                   *)
(***************************************************************************)
PlainInstead(lines) ==
    [k \in 1..Len(lines) |-> IF Malformed(lines[k]) THEN ProseLine ELSE lines[k]]

C16_MalformedSkipped ==
    outp.done =>
        LET lines == inp.text
            sm == section_match(lines)
        IN /\ HeadingLine(lines) = 0 => outp.topics = <<>>
           /\ (sm.found /\ \A k \in sm.from..sm.to : ~lines[k].bullet) =>
                 outp.topics = <<>>
           /\ \A m \in MatchLines : ~Malformed(lines[m])
           /\ \E now \in Times :
                 outp.topics =
                     parse_topics_from_response(PlainInstead(lines), inp.source, now).topics

(***************************************************************************)
(* Vocabulary of the extractor properties.                                 *)
(***************************************************************************)
EmittedLines == {outp.at[k] : k \in 1..Len(outp.at)}

\* the line that ends capturing: the first non-blank, non-comment line
\* after line d with indentation at most base; past the end if none
Terminator(lines, d, base) ==
    FirstAt({k \in (d + 1)..Len(lines) :
                ~lines[k].blank /\ ~lines[k].comment /\ lines[k].indent <= base},
            Len(lines) + 1)

\* def or async def, the name and an opening parenthesis; class, the name
\* and an opening parenthesis or a colon; one optional space before the
\* parenthesis
BeginsDefinition(l, symbol) ==
    /\ l.name = symbol
    /\ \/ l.kw \in {"def", "async def"} /\ l.after \in {"(", " ("}
       \/ l.kw = "class" /\ l.after \in {"(", " (", ":"}

\* def, async def or class, the name and an opening parenthesis or a colon
ClaimedDefinition(l, symbol) ==
    /\ l.name = symbol
    /\ l.kw \in {"def", "async def", "class"}
    /\ l.after \in {"(", " (", ":"}

ExtractStartsAt(Def(_, _)) ==
    outp.done =>
        LET lines == inp.text
            defs == {k \in 1..Len(lines) : Def(lines[k], inp.symbol)}
        IN /\ outp.found <=> defs # {}
           /\ outp.found =>
                 /\ outp.at[1] = FirstAt(defs, 0)
                 /\ outp.base = lines[outp.at[1]].indent
                 /\ \A a, b \in 1..Len(outp.at) : a < b => outp.at[a] < outp.at[b]
                 /\ outp.lines = [k \in 1..Len(outp.at) |-> lines[outp.at[k]].text]

(***************************************************************************)
(* C17: extract returns empty if and only if no line, stripped of leading  *)
(* white space, begins a definition of the symbol: def or async def, the   *)
(* name and an opening parenthesis, or class, the name and an opening      *)
(* parenthesis or a colon (one optional space before the parenthesis).     *)
(* Otherwise the result starts with the first such line, baseIndent is its *)
(* indentation and the emitted lines are in their original order.          *)
(***************************************************************************)
C17_Definition == ExtractStartsAt(BeginsDefinition)

\* C17 as stated: a colon directly after the name also begins a def or an
\* async def.
C17_Original == ExtractStartsAt(ClaimedDefinition)

C17_Witness ==
    /\ outp.done /\ outp.found
    /\ inp.text[1] = DefColonLine
    /\ outp.at = <<2, 3>>
    /\ outp.base = 4
    /\ inp.text[3] = Stmt8

(***************************************************************************)
(* C18: while capturing, every blank line and every line indented more     *)
(* than baseIndent is emitted; the first non-blank, non-comment line with  *)
(* indentation at most baseIndent ends capturing, is not emitted, and no   *)
(* line after it is emitted; the end of the file ends capturing too.       *)
(***************************************************************************)
C18_Capturing ==
    (outp.done /\ outp.found) =>
        LET lines == inp.text
            d == outp.at[1]
            term == Terminator(lines, d, outp.base)
        IN /\ \A k \in (d + 1)..(term - 1) :
                 (lines[k].blank \/ lines[k].indent > outp.base) => k \in EmittedLines
           /\ \A k \in term..Len(lines) : k \notin EmittedLines

C18_Witness ==
    /\ outp.done /\ outp.found
    /\ outp.at = <<1, 2, 3>>
    /\ inp.text[2].blank
    /\ inp.text[3].indent > outp.base
    /\ Len(inp.text) = 4
    /\ inp.text[4] = Stmt0

(***************************************************************************)
(* C19: while capturing, a comment line with indentation at most           *)
(* baseIndent ends capturing: no line that follows such a comment line in  *)
(* the file is part of the result.                                         *)
(***************************************************************************)
C19_CommentTerminates ==
    (outp.done /\ outp.found) =>
        LET lines == inp.text
            d == outp.at[1]
            term == Terminator(lines, d, outp.base)
        IN \A c \in (d + 1)..(term - 1) :
              (lines[c].comment /\ lines[c].indent <= outp.base) =>
                  \A m \in (c + 1)..Len(lines) : m \notin EmittedLines

(***************************************************************************)
(* C20: in the file of the scenario, extracting the first symbol yields    *)
(* its definition line, its body lines and the blank separator line, and   *)
(* no line of the second definition; extracting the second symbol yields   *)
(* its definition line and every line after it, which are its body lines   *)
(* and the empty last line of a file that ends with a newline; extracting  *)
(* a name that is not defined yields empty.                                *)
(***************************************************************************)
Separator(lines) == FirstAt({k \in 1..Len(lines) : lines[k].blank}, 0)

LastCode(lines) ==
    CHOOSE k \in 1..Len(lines) :
        ~lines[k].blank /\ \A m \in (k + 1)..Len(lines) : lines[m].blank

Interval(a, b) == [k \in 1..(b - a + 1) |-> a + k - 1]

ScenarioYields(firstEnd(_), secondEnd(_)) ==
    outp.done =>
        LET lines == inp.text
            sep == Separator(lines)
        IN /\ inp.symbol = lines[1].name =>
                 outp.found /\ outp.at = Interval(1, firstEnd(lines))
           /\ inp.symbol = lines[sep + 1].name =>
                 outp.found /\ outp.at = Interval(sep + 1, secondEnd(lines))
           /\ inp.symbol \notin {lines[1].name, lines[sep + 1].name} =>
                 ~outp.found /\ outp.at = <<>>

BeforeSeparator(lines) == Separator(lines) - 1

C20_Scenario == ScenarioYields(Separator, Len)

\* C20 as stated: exactly the definition line and the body lines, without
\* the blank separator line.
C20_Original == ScenarioYields(BeforeSeparator, LastCode)

C20_Witness ==
    /\ outp.done /\ outp.found
    /\ inp.symbol = inp.text[1].name
    /\ outp.at = <<1, 2, 3, 4>>
    /\ inp.text[4].blank
    /\ outp.lines[4] = ""

(***************************************************************************)
(* Vocabulary of the tree properties.                                      *)
(***************************************************************************)
\* the lines of the entries (the first line is the root)
EntryLines == 2..Len(outp.lines)
LinesOf(p) == {i \in EntryLines : outp.lines[i].path = p}
Listed(p) == LinesOf(p) # {}

\* the proper ancestors of an entry below the root
Ancestors(p) == {SubSeq(p, 1, k) : k \in 1..(Len(p) - 1)}

IsUnder(q, p) == Len(q) > Len(p) /\ SubSeq(q, 1, Len(p)) = p

\* the entry and its ancestors pass the filter
Visible(p) == \A a \in Ancestors(p) \cup {p} : ~skipped(Entry(a))

\* the root and the ancestors of the entry can be read
Readable(p) == <<>> \notin inp.denied /\ \A a \in Ancestors(p) : a \notin inp.denied

DepthRule(reach(_)) ==
    outp.done =>
        /\ outp.lines[1].path = <<>>
        /\ \A p \in inp.tree :
              /\ Cardinality(LinesOf(p)) <= 1
              /\ (Visible(p) /\ reach(p) /\ Len(p) <= inp.max_depth) => Listed(p)
              /\ Len(p) > inp.max_depth => ~Listed(p)
              /\ (p \in DirPaths /\ Len(p) = inp.max_depth) =>
                    \A q \in inp.tree : IsUnder(q, p) => ~Listed(q)

Always(p) == TRUE

(***************************************************************************)
(* C21: the root is depth 0 and its children depth 1.  An entry that       *)
(* passes the filter, with ancestors that all pass it and can all be read, *)
(* is listed exactly once if its depth is at most maxDepth; no entry       *)
(* deeper than maxDepth is listed; a directory at depth maxDepth is listed *)
(* and none of its children are.  The entries of a directory that cannot   *)
(* be read are not listed, whatever their depth.                           *)
(***************************************************************************)
C21_DepthBound ==
    /\ DepthRule(Readable)
    /\ outp.done =>
          \A p \in inp.tree :
              (\E a \in Ancestors(p) : a \in inp.denied) => ~Listed(p)

\* C21 as stated: whether or not the ancestors can be read.
C21_Original == DepthRule(Always)

C21_Witness ==
    /\ outp.done
    /\ inp.max_depth = 3
    /\ inp.denied = {<<"src", "pkg">>}
    /\ Listed(<<"src", "pkg">>)
    /\ <<"src", "pkg", "main.py">> \in inp.tree
    /\ ~Listed(<<"src", "pkg", "main.py">>)
    /\ <<"src", "pkg", "sub", "deep.py">> \in inp.tree
    /\ ~Listed(<<"src", "pkg", "sub", "deep.py">>)
    /\ Listed(<<"app.py">>)

(***************************************************************************)
(* C22: among the lines of one directory the subdirectories come before    *)
(* the files and the names of each group ascend (in the order of str);     *)
(* the descendants of a directory follow it directly, before its next      *)
(* sibling.                                                                *)
(***************************************************************************)
C22_Order ==
    outp.done =>
        \A i, j \in EntryLines :
            LET a == outp.lines[i]
                b == outp.lines[j]
            IN i < j =>
                 /\ Parent(a.path) = Parent(b.path) =>
                       \/ a.path \in DirPaths /\ b.path \notin DirPaths
                       \/ /\ (a.path \in DirPaths) = (b.path \in DirPaths)
                          /\ name_rank(a.name) < name_rank(b.name)
                 /\ IsUnder(b.path, a.path) =>
                       \A k \in (i + 1)..j : IsUnder(outp.lines[k].path, a.path)

C22_Witness ==
    /\ outp.done
    /\ Len(outp.lines) = 6
    /\ outp.lines[2].path = <<"src">>
    /\ outp.lines[3].path = <<"src", "pkg">>
    /\ outp.lines[4].path = <<"src", "build">>
    /\ outp.lines[5].path = <<"README.md">>
    /\ outp.lines[6].path = <<"app.py">>

(***************************************************************************)
(* C23: an entry is omitted exactly when its name is in the exclusion set  *)
(* and it is a directory or its name begins with a dot, or it is a         *)
(* directory whose name ends with .egg-info, or it is a file whose         *)
(* extension is in the suffix set.  An omitted entry has no line and       *)
(* nothing beneath it has one; every other entry within the depth bound,   *)
(* under listed directories that can be read, is listed.                   *)
(***************************************************************************)
OmittedByCode(e) ==
    \/ e.name \in skip_dirs /\ (e.is_dir \/ starts_with_dot(e.name))
    \/ e.is_dir /\ ends_with_egg_info(e.name)
    \/ ~e.is_dir /\ suffix(e.name) \in skip_suffixes

OmittedAsClaimed(e) ==
    \/ e.name \in skip_dirs
    \/ ~e.is_dir /\ suffix(e.name) \in skip_suffixes

ParentListed(p) == Len(p) = 1 \/ Listed(Parent(p))

ExclusionRule(Omitted(_), reach(_)) ==
    outp.done =>
        \A p \in inp.tree :
            /\ Omitted(Entry(p)) =>
                  ~Listed(p) /\ \A q \in inp.tree : IsUnder(q, p) => ~Listed(q)
            /\ (~Omitted(Entry(p)) /\ ParentListed(p) /\ reach(p)
                /\ Len(p) <= inp.max_depth) => Listed(p)

C23_Exclusion == ExclusionRule(OmittedByCode, Readable)

\* C23 as stated: every name of the exclusion set, file or directory, and
\* no other directory.
C23_Original == ExclusionRule(OmittedAsClaimed, Always)

C23_Witness ==
    /\ outp.done
    /\ <<".git", "objects">> \in inp.tree
    /\ <<"build">> \in inp.tree
    /\ Listed(<<"src", "build">>)
    /\ <<"src", "x.egg-info">> \in inp.tree
    /\ <<"m.pyc">> \in inp.tree
    /\ Len(outp.lines) = 3

(***************************************************************************)
(* C24: among the lines of one directory exactly the last one carries the  *)
(* last-sibling connector and the others the not-last connector; the       *)
(* prefix has one segment per ancestor below the root, a bar if that       *)
(* ancestor was not the last listed sibling and padding if it was.         *)
(***************************************************************************)
C24_Connectors ==
    outp.done =>
        \A i \in EntryLines :
            LET l == outp.lines[i]
                later == {j \in EntryLines :
                             j > i /\ Parent(outp.lines[j].path) = Parent(l.path)}
            IN /\ l.connector = IF later = {} THEN "last" ELSE "tee"
               /\ Len(l.prefix) = Len(l.path) - 1
               /\ \A k \in 1..Len(l.prefix) :
                     \E a \in LinesOf(SubSeq(l.path, 1, k)) :
                        l.prefix[k] = IF outp.lines[a].connector = "last"
                                      THEN "blank" ELSE "pipe"

C24_Witness ==
    /\ outp.done
    /\ <<"m.pyc">> \in inp.tree
    /\ \E i, j \in EntryLines :
          /\ outp.lines[i].path = <<"src">>
          /\ outp.lines[i].connector = "last"
          /\ outp.lines[j].path = <<"src", "pkg", "main.py">>
          /\ outp.lines[j].prefix = <<"blank", "pipe">>
          /\ outp.lines[j].connector = "last"

(***************************************************************************)
(* Vocabulary of the session properties.                                   *)
(***************************************************************************)
PendingNow == PendingOf(Stored(dir, file))
PoppedTargets == {outp.popped[k] : k \in 1..Len(outp.popped)}
StatusOf(q, target) == {q[i].status : i \in {j \in 1..Len(q) : q[j].target = target}}

(***************************************************************************)
(* C25: starting from an absent queue, after any sequence of add, popNext  *)
(* and skip the targets of the persisted Topics are pairwise distinct.     *)
(***************************************************************************)
C25_DistinctTargets ==
    \A i, j \in 1..Len(After) : i < j => After[i].target # After[j].target

C25_Witness ==
    /\ last.op = "add"
    /\ Len(last.input) = 2
    /\ last.input[1].target = last.input[2].target
    /\ last.n = 1
    /\ Len(After) = 3
    /\ After[1].status = "done"
    /\ After[2].status = "skipped"

(***************************************************************************)
(* C26: deduplication ignores status: an add never appends a target that   *)
(* is stored, even when the stored Topic is done or skipped.  Hence        *)
(* popNext returns a Topic with a given target at most once and never      *)
(* returns a Topic that has been skipped.                                  *)
(***************************************************************************)
C26_PopOnce ==
    /\ last.op = "add" =>
          \A k \in 1..Len(last.input) :
              last.input[k].target \in TargetsOf(Before) =>
                  /\ StatusOf(After, last.input[k].target)
                        = StatusOf(Before, last.input[k].target)
                  /\ Cardinality({i \in 1..Len(After) :
                                     After[i].target = last.input[k].target}) = 1
    /\ \A a, b \in 1..Len(outp.popped) : a < b => outp.popped[a] # outp.popped[b]
    /\ PoppedTargets \cap outp.skipped = {}

C26_Witness ==
    /\ last.op = "add"
    /\ last.n = 0
    /\ Len(last.input) = 2
    /\ last.input[1].target \in PoppedTargets
    /\ last.input[2].target \in outp.skipped
    /\ StatusOf(After, last.input[1].target) = {"done"}
    /\ StatusOf(After, last.input[2].target) = {"skipped"}

(***************************************************************************)
(* C27: a session terminates.  With finitely many targets and a caller who *)
(* keeps running next, the pending count reaches zero for good and next    *)
(* then reports that no pending Topics remain; each next that pops turns   *)
(* exactly one pending Topic into done, and the Topics enqueued after it   *)
(* have targets that were not stored before.                               *)
(***************************************************************************)
C27_Step ==
    /\ (pc = "idle" /\ pc' = "dispatch") =>
          /\ Len(PendingOf(Stored(dir', file'))) = Len(PendingNow) - 1
          /\ Len(Stored(dir', file')) = Len(Stored(dir, file))
    /\ (pc = "dispatch" /\ pc' = "idle") =>
          LET q == Stored(dir, file)
              q2 == Stored(dir', file')
          IN /\ SubSeq(q2, 1, Len(q)) = q
             /\ \A i \in (Len(q) + 1)..Len(q2) :
                   /\ q2[i].target \notin TargetsOf(q)
                   /\ q2[i].status = "pending"

C27_Terminates ==
    /\ <>[](PendingNow = <<>> /\ outp.report = "no pending")
    /\ [][C27_Step]_vars

C27_Witness ==
    /\ outp.report = "no pending"
    /\ last.op = "pop"
    /\ Len(After) = 3
    /\ PendingNow = <<>>
    /\ Len(outp.popped) = 3
    /\ outp.failed # {}

(***************************************************************************)
(* C28: next marks the popped Topic done and persists that before the      *)
(* dispatch; a dispatch that fails or is abandoned leaves the persisted    *)
(* queue as it is, the Topic stays done, and no later popNext returns it.  *)
(***************************************************************************)
C28_State ==
    /\ pc = "dispatch" =>
          /\ buf.ret.out[1].status = "done"
          /\ \E i \in 1..Len(After) : After[i] = buf.ret.out[1]
    /\ \A i \in 1..Len(After) :
          After[i].target \in outp.failed => After[i].status = "done"

C28_Step ==
    /\ (pc = "dispatch" /\ pc' = "idle" /\ outp'.failed # outp.failed) =>
          file' = file /\ dir' = dir
    /\ (pc = "idle" /\ pc' = "dispatch") =>
          buf'.ret.out[1].target \notin outp.failed

C28_DoneBeforeDispatch == [](C28_State) /\ [][C28_Step]_vars

C28_Witness ==
    /\ pc = "dispatch"
    /\ outp.failed = {"c.py"}
    /\ outp.popped = <<"c.py", "a.py">>
    /\ StatusOf(After, "c.py") = {"done"}
    /\ last.op = "pop"

(***************************************************************************)
(* C29: extract terminates and captures at most one definition.  The loop  *)
(* state goes from searching to capturing and never back, the while loop   *)
(* entered on a match never iterates (nothing has been appended before the *)
(* match), and the result is the run of consecutive lines that begins at   *)
(* the first definition line of the symbol; it is the result of            *)
(* extract_symbol as a whole.                                              *)
(***************************************************************************)
C29_State ==
    IF outp.done
    THEN LET r == extract_symbol(inp.text, inp.symbol)
             defs == {k \in 1..Len(inp.text) : BeginsDefinition(inp.text[k], inp.symbol)}
         IN /\ outp.found = r.found /\ outp.at = r.at /\ outp.lines = r.lines
            /\ outp.found =>
                  outp.at = Interval(FirstAt(defs, 0), outp.at[Len(outp.at)])
    ELSE /\ outp.phase # "spinning"
         /\ outp.phase = "searching" => outp.at = <<>>

C29_Step ==
    (~outp.done /\ ~outp'.done) =>
        /\ outp.phase = "capturing" => outp'.phase \in {"capturing", "ended"}
        /\ outp.phase = "ended" => outp'.phase = "ended"
        /\ outp'.i >= outp.i

C29_Terminates == <>(outp.done) /\ [](C29_State) /\ [][C29_Step]_vars

C29_Witness ==
    /\ outp.done /\ outp.found
    /\ inp.text = <<DecoratorLine, DefLine("f"), Stmt4, DefLine("f")>>
    /\ outp.at = <<2, 3>>

(***************************************************************************)
(* C30: when the definition line of the symbol is immediately preceded by  *)
(* decorator lines, those lines are part of the result, above the          *)
(* definition line.                                                        *)
(***************************************************************************)
C30_DecoratorsIncluded ==
    (outp.done /\ outp.found) =>
        LET defs == {k \in 1..Len(inp.text) : BeginsDefinition(inp.text[k], inp.symbol)}
            d == FirstAt(defs, 0)
        IN \A k \in 1..(d - 1) :
              (\A m \in k..(d - 1) : is_decorator(inp.text[m])) =>
                  /\ k \in EmittedLines
                  /\ outp.at[1] <= k

====
